---------------------------- MODULE Spec2Model ----------------------------
(***************************************************************************)
(* resume-tailor (src/main.py): a Google Doc is read into plain text plus  *)
(* a list of style spans, the text is rewritten by a text-generation call, *)
(* and a new document is built from the new text and the style spans.      *)
(*                                                                         *)
(* Strings are sequences of one-character strings.  A Python dict is a     *)
(* sequence of <<key, value>> pairs in insertion order.                    *)
(***************************************************************************)
EXTENDS Integers, Sequences, FiniteSets, TLC

VARIABLES
    pc,               \* position of main
    result,           \* "none" | "0" | "1" (main's return value) | "SystemExit"
    attempt,          \* loop variable of the service-initialisation loop
    token_exists,     \* whether token.pickle exists
    resume_content,   \* text returned by read_doc
    styles,           \* style list returned by read_doc
    company_name,     \* first component returned by extract_job_details
    job_title,        \* second component returned by extract_job_details
    tailored_content, \* text returned by tailor_resume
    doc_created,      \* documents().create succeeded in this run
    requests,         \* body of the batchUpdate request that was built
    calls,            \* log of the pipeline's external steps, with their outcome
    auth_log,         \* outcomes of the service-initialisation attempts, in order
    response,         \* extractor response text being parsed
    details,          \* outcome of parsing the response
    file,             \* file handed to read_file_with_encodings
    enc_i,            \* index of the encoding the loop is at
    tried,            \* encodings opened so far, in order
    read_result       \* outcome of read_file_with_encodings

vars == <<pc, result, attempt, token_exists, resume_content, styles,
          company_name, job_title, tailored_content, doc_created, requests,
          calls, auth_log, response, details, file, enc_i, tried, read_result>>

mainVars == <<pc, result, attempt, token_exists, resume_content, styles,
              company_name, job_title, tailored_content, doc_created,
              requests, calls, auth_log>>
extractVars == <<response, details>>
encVars == <<file, enc_i, tried, read_result>>

---------------------------------------------------------------------------
(* Bounds of the model *)

MaxElems == 2        \* structural elements in a document body
MaxParaElems == 1    \* elements in one paragraph
MaxNewLen == 2       \* length of the text the rewriter returns
MaxRespLen == 6      \* tokens in a response of the job-detail extractor

Whitespace == {" ", "\n"}

SeqsUpTo(S, n) == UNION {[1..k -> S] : k \in 0..n}

---------------------------------------------------------------------------
(* str.strip(): leading and trailing whitespace removed *)

RECURSIVE lstrip(_)
lstrip(s) ==
    IF s # <<>> /\ Head(s) \in Whitespace THEN lstrip(Tail(s)) ELSE s

RECURSIVE rstrip(_)
rstrip(s) ==
    IF s # <<>> /\ s[Len(s)] \in Whitespace
    THEN rstrip(SubSeq(s, 1, Len(s) - 1))
    ELSE s

strip(s) == rstrip(lstrip(s))

---------------------------------------------------------------------------
(* Documents returned by documents().get() *)

EmptyStyle == <<>>
TextStyles == { <<>>,
                << <<"bold", TRUE>> >>,
                << <<"italic", TRUE>>, <<"bold", TRUE>> >> }

RunContents == {<<" ">>, <<"a">>}

(* a text run with or without a 'textStyle' key *)
TextRuns ==
    {[content |-> c] : c \in RunContents}
    \cup {[content |-> c, textStyle |-> st] :
            c \in RunContents, st \in TextStyles \ {EmptyStyle}}

(* a paragraph element is a text run or something else (an inline object) *)
ParaElements ==
    {[textRun |-> r] : r \in TextRuns} \cup {[inlineObjectElement |-> TRUE]}

(* a structural element is a paragraph or something else (a section break) *)
StructuralElements ==
    {[paragraph |-> [elements |-> es]] : es \in SeqsUpTo(ParaElements, MaxParaElems)}
    \cup {[sectionBreak |-> TRUE]}

(* a document with a body, or one with no 'body' key *)
Documents ==
    {[body |-> [content |-> c]] : c \in SeqsUpTo(StructuralElements, MaxElems)}
    \cup {[title |-> "Resume"]}

---------------------------------------------------------------------------
(* read_doc, lines 154-175: the walk over the document *)

current_index_after(current_index, content) == current_index + Len(content)

(* one text run appended to the accumulated (text, styles, current_index) *)
read_text_run(acc, text_run) ==
    LET content == text_run.content
        style_info ==
            [start_index |-> acc.current_index,
             end_index   |-> acc.current_index + Len(content),
             style       |-> IF "textStyle" \in DOMAIN text_run
                             THEN text_run.textStyle ELSE EmptyStyle]
    IN  [text          |-> acc.text \o content,
         styles        |-> Append(acc.styles, style_info),
         current_index |-> current_index_after(acc.current_index, content)]

RECURSIVE read_paragraph(_, _, _)
read_paragraph(acc, elements, i) ==
    IF i > Len(elements) THEN acc
    ELSE read_paragraph(
            IF "textRun" \in DOMAIN elements[i]
            THEN read_text_run(acc, elements[i].textRun) ELSE acc,
            elements, i + 1)

RECURSIVE read_content(_, _, _)
read_content(acc, doc_content, i) ==
    IF i > Len(doc_content) THEN acc
    ELSE read_content(
            IF "paragraph" \in DOMAIN doc_content[i]
            THEN read_paragraph(acc, doc_content[i].paragraph.elements, 1)
            ELSE acc,
            doc_content, i + 1)

returned_text(text) == strip(text)

read_doc(document) ==
    LET doc_content == IF "body" \in DOMAIN document
                       THEN document.body.content ELSE <<>>
        acc == read_content([text |-> <<>>, styles |-> <<>>, current_index |-> 0],
                            doc_content, 1)
    IN  [text |-> returned_text(acc.text), styles |-> acc.styles]

---------------------------------------------------------------------------
(* create_tailored_resume, lines 425-446: the batchUpdate body *)

BaseIndex == 1

dict_keys(d) == [i \in 1..Len(d) |-> d[i][1]]

(* a fields mask that names every style attribute, set in the mapping or not *)
style_fields_all(style) == <<"bold", "italic">>

style_fields(style) == dict_keys(style)

style_request(style_info) ==
    [updateTextStyle |->
        [range     |-> [startIndex |-> style_info.start_index + BaseIndex,
                        endIndex   |-> style_info.end_index + BaseIndex],
         textStyle |-> style_info.style,
         fields    |-> style_fields(style_info.style)]]

(* the style list walked from its end *)
style_requests_reversed(style_list) ==
    [i \in 1..Len(style_list) |->
        style_request(style_list[Len(style_list) + 1 - i])]

style_requests(style_list) ==
    [i \in 1..Len(style_list) |-> style_request(style_list[i])]

build_requests(content, style_list) ==
    << [insertText |-> [location |-> [index |-> BaseIndex], text |-> content]] >>
    \o style_requests(style_list)

---------------------------------------------------------------------------
(* extract_job_details, lines 372-386: parsing of the extractor's response. *)
(* The prefixes 'Company:' and 'Title:' are single tokens of the text.      *)

RespTokens == {"Company:", "Title:", " ", "\n", "x"}

(* str.split('\n') *)
RECURSIVE split_lines(_, _, _)
split_lines(s, i, cur) ==
    IF i > Len(s) THEN <<cur>>
    ELSE IF s[i] = "\n" THEN <<cur>> \o split_lines(s, i + 1, <<>>)
    ELSE split_lines(s, i + 1, Append(cur, s[i]))

startswith(line, prefix) == line # <<>> /\ line[1] = prefix

(* str.replace(prefix, ''): every occurrence is removed *)
replace_prefix(line, prefix) == SelectSeq(line, LAMBDA t : t # prefix)

field_value(line, prefix) == strip(replace_prefix(line, prefix))

RECURSIVE parse_lines(_, _, _, _)
parse_lines(lines, i, company, title) ==
    IF i > Len(lines) THEN [company |-> company, title |-> title]
    ELSE IF startswith(lines[i], "Company:")
         THEN parse_lines(lines, i + 1, field_value(lines[i], "Company:"), title)
    ELSE IF startswith(lines[i], "Title:")
         THEN parse_lines(lines, i + 1, company, field_value(lines[i], "Title:"))
    ELSE parse_lines(lines, i + 1, company, title)

(* kind "ok": (company, title) is returned; kind "error": the function raises *)
extract_job_details(resp) ==
    LET p == parse_lines(split_lines(resp, 1, <<>>), 1, <<>>, <<>>)
    IN  IF p.company = <<>> \/ p.title = <<>>
        THEN [kind |-> "error", company |-> <<>>, title |-> <<>>]
        ELSE [kind |-> "ok", company |-> p.company, title |-> p.title]

---------------------------------------------------------------------------
(* main, lines 484-544 *)

max_retries == 2

(* responses of the extractor seen by main: a complete one, one without title *)
MainResponses ==
    { <<"Company:", " ", "x", "\n", "Title:", " ", "x", "\n">>,
      <<"Company:", " ", "x">> }

(* texts the rewriter may return *)
NewTexts == SeqsUpTo({"a"}, MaxNewLen)

Init ==
    /\ pc = "check_environment"
    /\ result = "none"
    /\ attempt = 0
    /\ token_exists \in BOOLEAN
    /\ resume_content = <<>>
    /\ styles = <<>>
    /\ company_name = <<>>
    /\ job_title = <<>>
    /\ tailored_content = <<>>
    /\ doc_created = FALSE
    /\ requests = <<>>
    /\ calls = <<>>
    /\ auth_log = <<>>
    /\ response = <<>>
    /\ details = [kind |-> "none", company |-> <<>>, title |-> <<>>]
    /\ file = <<>>
    /\ enc_i = 0
    /\ tried = <<>>
    /\ read_result = [kind |-> "none", content |-> <<>>]

(* the failed step is left to run again *)
main_except_retry ==
    /\ pc' = pc
    /\ result' = "1"

(* lines 540-542: any Exception ends main with the value 1 *)
main_except ==
    /\ pc' = "done"
    /\ result' = "1"

(* SystemExit is no Exception: it leaves main without a return value *)
system_exit ==
    /\ pc' = "done"
    /\ result' = "SystemExit"

logged(step, ok) == Append(calls, [step |-> step, ok |-> ok])

(* line 488 *)
MainCheckEnvironment ==
    /\ pc = "check_environment"
    /\ \E key_set \in BOOLEAN :
         IF key_set
         THEN pc' = "get_base_resume" /\ result' = result
         ELSE main_except
    /\ UNCHANGED <<attempt, token_exists, resume_content, styles, company_name,
                   job_title, tailored_content, doc_created, requests, calls>>
    /\ UNCHANGED <<auth_log, extractVars, encVars>>

(* line 491: get_base_resume asks again until the link is valid *)
MainGetBaseResume ==
    /\ pc = "get_base_resume"
    /\ \E valid_link \in BOOLEAN :
         pc' = IF valid_link THEN "init_service" ELSE "get_base_resume"
    /\ UNCHANGED <<result, attempt, token_exists, resume_content, styles,
                   company_name, job_title, tailored_content, doc_created,
                   requests, calls>>
    /\ UNCHANGED <<auth_log, extractVars, encVars>>

AuthOutcomes ==
    {"ok", "auth_invalid_grant", "auth_other", "call_invalid_grant", "call_other"}

invalid_grant(outcome) ==
    outcome \in {"auth_invalid_grant", "call_invalid_grant"}

(* every error of the first attempt is followed by another attempt *)
should_retry_any(outcome, att) == att < max_retries - 1

(* line 503 *)
should_retry(outcome, att) ==
    invalid_grant(outcome) /\ att < max_retries - 1

(* lines 494-508: one iteration of the service-initialisation loop.         *)
(* get_google_auth leaves token.pickle saved when it returns (lines 96-97,  *)
(* 105-128); when it raises, the file may be there or not.                  *)
MainInitService ==
    /\ pc = "init_service"
    /\ attempt < max_retries
    /\ \E outcome \in AuthOutcomes, token_left \in BOOLEAN :
         LET token_after_auth ==
                 IF outcome \in {"auth_invalid_grant", "auth_other"}
                 THEN token_left ELSE TRUE
         IN  /\ auth_log' = Append(auth_log, outcome)
             /\ IF outcome = "ok"
                THEN /\ pc' = "read_doc"
                     /\ token_exists' = token_after_auth
                     /\ UNCHANGED <<attempt, result>>
                ELSE IF should_retry(outcome, attempt)
                THEN /\ token_exists' = FALSE
                     /\ attempt' = attempt + 1
                     /\ UNCHANGED <<pc, result>>
                ELSE /\ main_except
                     /\ token_exists' = token_after_auth
                     /\ UNCHANGED attempt
    /\ UNCHANGED <<resume_content, styles, company_name, job_title,
                   tailored_content, doc_created, requests, calls>>
    /\ UNCHANGED <<extractVars, encVars>>

(* line 512 *)
MainReadDoc ==
    /\ pc = "read_doc"
    /\ \/ \E document \in Documents :
            /\ resume_content' = read_doc(document).text
            /\ styles' = read_doc(document).styles
            /\ calls' = logged("read_doc", TRUE)
            /\ pc' = "get_job_posting"
            /\ UNCHANGED result
       \/ /\ main_except
          /\ calls' = logged("read_doc", FALSE)
          /\ UNCHANGED <<resume_content, styles>>
    /\ UNCHANGED <<attempt, token_exists, company_name, job_title,
                   tailored_content, doc_created, requests>>
    /\ UNCHANGED <<auth_log, extractVars, encVars>>

(* line 516: get_job_posting returns a non-empty text or raises SystemExit *)
MainGetJobPosting ==
    /\ pc = "get_job_posting"
    /\ \E got_text \in BOOLEAN :
         IF got_text
         THEN pc' = "extract_job_details" /\ result' = result
         ELSE system_exit
    /\ UNCHANGED <<attempt, token_exists, resume_content, styles, company_name,
                   job_title, tailored_content, doc_created, requests, calls>>
    /\ UNCHANGED <<auth_log, extractVars, encVars>>

(* line 520 *)
MainExtractJobDetails ==
    /\ pc = "extract_job_details"
    /\ \/ \E resp \in MainResponses :
            LET d == extract_job_details(resp)
            IN  IF d.kind = "ok"
                THEN /\ company_name' = d.company
                     /\ job_title' = d.title
                     /\ calls' = logged("extract_job_details", TRUE)
                     /\ pc' = "get_base_doc_title"
                     /\ UNCHANGED result
                ELSE /\ main_except
                     /\ calls' = logged("extract_job_details", FALSE)
                     /\ UNCHANGED <<company_name, job_title>>
       \/ /\ main_except
          /\ calls' = logged("extract_job_details", FALSE)
          /\ UNCHANGED <<company_name, job_title>>
    /\ UNCHANGED <<attempt, token_exists, resume_content, styles,
                   tailored_content, doc_created, requests>>
    /\ UNCHANGED <<auth_log, extractVars, encVars>>

(* line 523 *)
MainGetBaseDocTitle ==
    /\ pc = "get_base_doc_title"
    /\ \E ok \in BOOLEAN :
         /\ calls' = logged("get_base_doc_title", ok)
         /\ IF ok
            THEN pc' = "get_tailoring_temperature" /\ result' = result
            ELSE main_except
    /\ UNCHANGED <<attempt, token_exists, resume_content, styles, company_name,
                   job_title, tailored_content, doc_created, requests>>
    /\ UNCHANGED <<auth_log, extractVars, encVars>>

(* line 526: a temperature is returned, or SystemExit on an interrupt *)
MainGetTailoringTemperature ==
    /\ pc = "get_tailoring_temperature"
    /\ \E got_value \in BOOLEAN :
         IF got_value
         THEN pc' = "tailor_resume" /\ result' = result
         ELSE system_exit
    /\ UNCHANGED <<attempt, token_exists, resume_content, styles, company_name,
                   job_title, tailored_content, doc_created, requests, calls>>
    /\ UNCHANGED <<auth_log, extractVars, encVars>>

(* line 530 *)
MainTailorResume ==
    /\ pc = "tailor_resume"
    /\ \/ \E new_text \in NewTexts :
            /\ tailored_content' = new_text
            /\ calls' = logged("tailor_resume", TRUE)
            /\ pc' = "create_tailored_resume"
            /\ UNCHANGED result
       \/ /\ main_except
          /\ calls' = logged("tailor_resume", FALSE)
          /\ UNCHANGED tailored_content
    /\ UNCHANGED <<attempt, token_exists, resume_content, styles, company_name,
                   job_title, doc_created, requests>>
    /\ UNCHANGED <<auth_log, extractVars, encVars>>

(* lines 535-544 with create_tailored_resume, lines 420-455 *)
MainCreateTailoredResume ==
    /\ pc = "create_tailored_resume"
    /\ \/ \* documents().create raises
          /\ main_except
          /\ calls' = logged("documents.create", FALSE)
          /\ UNCHANGED <<doc_created, requests>>
       \/ \E batch_ok \in BOOLEAN :
            /\ doc_created' = TRUE
            /\ requests' = build_requests(tailored_content, styles)
            /\ calls' = Append(logged("documents.create", TRUE),
                               [step |-> "documents.batchUpdate", ok |-> batch_ok])
            /\ IF batch_ok
               THEN pc' = "done" /\ result' = "0"
               ELSE main_except
    /\ UNCHANGED <<attempt, token_exists, resume_content, styles, company_name,
                   job_title, tailored_content>>
    /\ UNCHANGED <<auth_log, extractVars, encVars>>

Next ==
    \/ MainCheckEnvironment
    \/ MainGetBaseResume
    \/ MainInitService
    \/ MainReadDoc
    \/ MainGetJobPosting
    \/ MainExtractJobDetails
    \/ MainGetBaseDocTitle
    \/ MainGetTailoringTemperature
    \/ MainTailorResume
    \/ MainCreateTailoredResume

Spec == Init /\ [][Next]_vars

---------------------------------------------------------------------------
(* extract_job_details on its own: every response up to MaxRespLen tokens *)

Responses == SeqsUpTo(RespTokens, MaxRespLen)

IdleMain ==
    /\ pc = "idle"
    /\ result = "none"
    /\ attempt = 0
    /\ token_exists = FALSE
    /\ resume_content = <<>>
    /\ styles = <<>>
    /\ company_name = <<>>
    /\ job_title = <<>>
    /\ tailored_content = <<>>
    /\ doc_created = FALSE
    /\ requests = <<>>
    /\ calls = <<>>
    /\ auth_log = <<>>

InitExtract ==
    /\ IdleMain
    /\ response \in Responses
    /\ details = [kind |-> "none", company |-> <<>>, title |-> <<>>]
    /\ file = <<>>
    /\ enc_i = 0
    /\ tried = <<>>
    /\ read_result = [kind |-> "none", content |-> <<>>]

(* lines 354-388: the completion call raises, or its response is parsed *)
ExtractJobDetails ==
    /\ details.kind = "none"
    /\ response \in Responses
    /\ \/ details' = extract_job_details(response)
       \/ details' = [kind |-> "api_error", company |-> <<>>, title |-> <<>>]
    /\ UNCHANGED <<response, mainVars, encVars>>

NextExtract == ExtractJobDetails

SpecExtract == InitExtract /\ [][NextExtract]_vars

---------------------------------------------------------------------------
(* get_job_posting.read_file_with_encodings, lines 215-226 *)

SUPPORTED_ENCODINGS == <<"utf-8", "utf-16", "ascii", "iso-8859-1", "cp1252">>

FileTexts == {<<>>, <<" ">>, <<"a">>, <<" ", "a", " ">>}

(* what file.read() gives under one encoding: a text or UnicodeDecodeError *)
Decodings ==
    {[ok |-> TRUE, text |-> t] : t \in FileTexts}
    \cup {[ok |-> FALSE, text |-> <<>>]}

Files ==
    [exists : BOOLEAN, decoded : [DOMAIN SUPPORTED_ENCODINGS -> Decodings]]

InitEncodings ==
    /\ IdleMain
    /\ response = <<>>
    /\ details = [kind |-> "none", company |-> <<>>, title |-> <<>>]
    /\ file \in Files
    /\ enc_i = 1
    /\ tried = <<>>
    /\ read_result = [kind |-> "running", content |-> <<>>]

(* an empty file treated like a decoding failure *)
try_encoding_skip_empty(f, i) ==
    IF ~f.exists
    THEN [kind |-> "FileNotFoundError", content |-> <<>>]
    ELSE IF ~f.decoded[i].ok \/ strip(f.decoded[i].text) = <<>>
    THEN [kind |-> "continue", content |-> <<>>]
    ELSE [kind |-> "return", content |-> strip(f.decoded[i].text)]

(* lines 218-225: what one iteration of the loop does with the file *)
try_encoding(f, i) ==
    IF ~f.exists
    THEN [kind |-> "FileNotFoundError", content |-> <<>>]
    ELSE IF ~f.decoded[i].ok
    THEN [kind |-> "continue", content |-> <<>>]
    ELSE LET content == strip(f.decoded[i].text)
         IN  IF content = <<>>
             THEN [kind |-> "FileReadError", content |-> <<>>]
             ELSE [kind |-> "return", content |-> content]

(* lines 217-225: one iteration of the loop over SUPPORTED_ENCODINGS *)
ReadFileTryEncoding ==
    /\ read_result.kind = "running"
    /\ enc_i <= Len(SUPPORTED_ENCODINGS)
    /\ tried' = Append(tried, SUPPORTED_ENCODINGS[enc_i])
    /\ LET r == try_encoding(file, enc_i)
       IN  IF r.kind = "continue"
           THEN enc_i' = enc_i + 1 /\ UNCHANGED read_result
           ELSE read_result' = r /\ UNCHANGED enc_i
    /\ UNCHANGED <<file, mainVars, extractVars>>

(* line 226: the loop ended without a return *)
ReadFileExhausted ==
    /\ read_result.kind = "running"
    /\ enc_i > Len(SUPPORTED_ENCODINGS)
    /\ read_result' = [kind |-> "FileReadError", content |-> <<>>]
    /\ UNCHANGED <<file, enc_i, tried, mainVars, extractVars>>

NextEncodings == ReadFileTryEncoding \/ ReadFileExhausted

SpecEncodings == InitEncodings /\ [][NextEncodings]_vars

---------------------------------------------------------------------------
(* Properties *)

ReadDone == calls # <<>> /\ calls[1].step = "read_doc" /\ calls[1].ok
RequestsBuilt == requests # <<>>
StepsCalled == {calls[i].step : i \in 1..Len(calls)}

(* the style spans the batch request applies, in new-text offsets *)
AppliedSpans ==
    [i \in 1..(Len(requests) - 1) |->
        [start |-> requests[i + 1].updateTextStyle.range.startIndex - 1,
         end   |-> requests[i + 1].updateTextStyle.range.endIndex - 1,
         style |-> requests[i + 1].updateTextStyle.textStyle]]

(* C1: the spans returned by read_doc partition the returned text: in      *)
(* order, first start 0, each start the previous end, last end len(text).  *)
C1_SpansPartitionText ==
    ReadDone =>
        /\ \A i \in 1..Len(styles) :
             styles[i].start_index <= styles[i].end_index
        /\ \A i \in 1..(Len(styles) - 1) :
             styles[i + 1].start_index = styles[i].end_index
        /\ styles # <<>> =>
             /\ styles[1].start_index = 0
             /\ styles[Len(styles)].end_index = Len(resume_content)
        /\ styles = <<>> => resume_content = <<>>

(* C2: every applied span lies inside the new text:                        *)
(* 0 <= start <= end <= len(new_text).                                     *)
C2_AppliedSpansInBounds ==
    RequestsBuilt =>
        \A i \in 1..Len(AppliedSpans) :
            /\ 0 <= AppliedSpans[i].start
            /\ AppliedSpans[i].start <= AppliedSpans[i].end
            /\ AppliedSpans[i].end <= Len(tailored_content)

(* Python's round(a / b) for a >= 0, b > 0: halves go to the even integer *)
RoundDiv(a, b) ==
    LET q == a \div b
        r == a % b
    IN  IF 2 * r < b THEN q
        ELSE IF 2 * r > b THEN q + 1
        ELSE IF q % 2 = 0 THEN q ELSE q + 1

Min2(a, b) == IF a <= b THEN a ELSE b
Max2(a, b) == IF a >= b THEN a ELSE b

ScaledStart(s, old_len, new_len) ==
    Min2(Max2(RoundDiv(s * new_len, old_len), 0), new_len)
ScaledEnd(s, e, old_len, new_len) ==
    Max2(ScaledStart(s, old_len, new_len), ScaledStart(e, old_len, new_len))

(* C3: the applied spans are the original spans scaled by                  *)
(* len(new_text) / len(original text), rounded and clamped.                *)
C3_AppliedSpansScaled ==
    (RequestsBuilt /\ resume_content # <<>>) =>
        /\ Len(AppliedSpans) = Len(styles)
        /\ \A i \in 1..Len(AppliedSpans) :
             /\ AppliedSpans[i].start =
                    ScaledStart(styles[i].start_index,
                                Len(resume_content), Len(tailored_content))
             /\ AppliedSpans[i].end =
                    ScaledEnd(styles[i].start_index, styles[i].end_index,
                              Len(resume_content), Len(tailored_content))
             /\ AppliedSpans[i].style = styles[i].style

(* C4: when the extracted plain text is empty, the batch request holds no  *)
(* style-apply operation.                                                  *)
C4_EmptyTextNoStyleOps ==
    (RequestsBuilt /\ resume_content = <<>>) => Len(requests) = 1

(* C6: the batch request is the insertion of the whole text at index 1,    *)
(* then one style-apply operation per span, in span order, with the range  *)
(* shifted by 1, the span's style, and exactly the style's keys as fields. *)
C6_RequestsMirrorSpans ==
    RequestsBuilt =>
        /\ requests[1] =
             [insertText |-> [location |-> [index |-> 1],
                              text |-> tailored_content]]
        /\ Len(requests) = 1 + Len(styles)
        /\ \A i \in 1..Len(styles) :
             /\ DOMAIN requests[i + 1] = {"updateTextStyle"}
             /\ LET op == requests[i + 1].updateTextStyle
                    keys == {styles[i].style[k][1] : k \in 1..Len(styles[i].style)}
                IN  /\ op.range.startIndex = styles[i].start_index + 1
                    /\ op.range.endIndex = styles[i].end_index + 1
                    /\ op.textStyle = styles[i].style
                    /\ {op.fields[k] : k \in 1..Len(op.fields)} = keys
                    /\ Len(op.fields) = Cardinality(keys)

(* a request with two spans of different styles, one of them empty *)
C6_Witness ==
    /\ RequestsBuilt
    /\ Len(styles) = 2
    /\ styles[1].style = <<>>
    /\ Len(styles[2].style) = 2

(* C7: a span that starts earlier in the original is applied earlier, at   *)
(* a start offset that is not larger.                                      *)
C7_AppliedOrderMonotonic ==
    RequestsBuilt =>
        /\ Len(requests) = 1 + Len(styles)
        /\ \A i, j \in 1..Len(styles) :
             styles[i].start_index < styles[j].start_index =>
                /\ i < j
                /\ AppliedSpans[i].start <= AppliedSpans[j].start
                /\ AppliedSpans[i].style = styles[i].style
                /\ AppliedSpans[j].style = styles[j].style

(* two spans with different starts and styles, applied to a shorter text *)
C7_Witness ==
    /\ RequestsBuilt
    /\ Len(styles) = 2
    /\ styles[1].start_index < styles[2].start_index
    /\ styles[1].style # styles[2].style
    /\ Len(tailored_content) < Len(resume_content)

(* C8: when the extracted text is empty, the rewriter is not called and no *)
(* document is created.                                                    *)
C8_EmptyTextStopsRun ==
    (ReadDone /\ resume_content = <<>>) =>
        /\ "tailor_resume" \notin StepsCalled
        /\ "documents.create" \notin StepsCalled
        /\ ~doc_created

StepOrder ==
    <<"read_doc", "extract_job_details", "get_base_doc_title", "tailor_resume",
      "documents.create", "documents.batchUpdate">>

(* C9: the external steps run in the fixed order, each at most once; a     *)
(* failed step is the last one and main returns 1; a document is created   *)
(* only after the read, the extraction and the rewrite succeeded; main     *)
(* returns 0 only after the creation and the batch update succeeded.       *)
C9_FailureEndsPipeline ==
    /\ Len(calls) <= Len(StepOrder)
    /\ \A i \in 1..Len(calls) :
         /\ calls[i].step = StepOrder[i]
         /\ ~calls[i].ok => (i = Len(calls) /\ pc = "done" /\ result = "1")
    /\ doc_created =>
         /\ Len(calls) >= 5
         /\ calls[1].ok /\ calls[2].ok /\ calls[4].ok /\ calls[5].ok
    /\ result = "0" =>
         /\ doc_created
         /\ Len(calls) = 6
         /\ \A i \in 1..6 : calls[i].ok

(* the rewrite failed after the three steps before it succeeded *)
C9_Witness ==
    /\ Len(calls) = 4
    /\ calls[3].ok
    /\ ~calls[4].ok
    /\ pc = "done"
    /\ result = "1"

(* the lines of the response and what the claim calls a line's value: the *)
(* text after the prefix, trimmed                                          *)
ResponseLines == split_lines(response, 1, <<>>)
CompanyLines ==
    {i \in 1..Len(ResponseLines) : startswith(ResponseLines[i], "Company:")}
TitleLines ==
    {i \in 1..Len(ResponseLines) : startswith(ResponseLines[i], "Title:")}
ValueOfLine(i) == strip(Tail(ResponseLines[i]))

RECURSIVE JoinLines(_, _)
JoinLines(lines, i) ==
    IF i > Len(lines) THEN <<>>
    ELSE lines[i] \o (IF i < Len(lines) THEN <<"\n">> ELSE <<>>)
         \o JoinLines(lines, i + 1)

(* the response without the lines that start with neither prefix *)
WithoutOtherLines ==
    JoinLines(SelectSeq(ResponseLines,
                        LAMBDA l : startswith(l, "Company:")
                                   \/ startswith(l, "Title:")), 1)

Parsed == details.kind \in {"ok", "error"}

(* lines with neither prefix have no effect on the result *)
C5_OtherLinesIgnored ==
    Parsed => details = extract_job_details(WithoutOtherLines)

(* a field that is absent, or empty after trimming, makes the call raise *)
C5_AbsentFieldRaises ==
    (Parsed /\ (\/ \A i \in CompanyLines : ValueOfLine(i) = <<>>
                \/ \A i \in TitleLines : ValueOfLine(i) = <<>>))
        => details.kind = "error"

(* one 'Company:' line and one 'Title:' line, both with a value: the pair  *)
(* of the trimmed values is returned                                       *)
C5_BothFieldsReturned ==
    (Parsed /\ Cardinality(CompanyLines) = 1 /\ Cardinality(TitleLines) = 1) =>
        LET c == CHOOSE i \in CompanyLines : TRUE
            t == CHOOSE i \in TitleLines : TRUE
        IN  (ValueOfLine(c) # <<>> /\ ValueOfLine(t) # <<>>) =>
                /\ details.kind = "ok"
                /\ details.company = ValueOfLine(c)
                /\ details.title = ValueOfLine(t)

(* C5: lines with neither prefix are ignored; a response with a 'Company:' *)
(* line and a 'Title:' line with non-empty values gives the pair of their  *)
(* trimmed values; an absent or empty field raises.                        *)
C5_ExtractJobDetails ==
    /\ C5_OtherLinesIgnored
    /\ C5_AbsentFieldRaises
    /\ C5_BothFieldsReturned

(* the first encoding that decodes the file, 0 if none does *)
FirstDecoding ==
    IF \E i \in DOMAIN SUPPORTED_ENCODINGS : file.decoded[i].ok
    THEN CHOOSE i \in DOMAIN SUPPORTED_ENCODINGS :
            /\ file.decoded[i].ok
            /\ \A j \in 1..(i - 1) : ~file.decoded[j].ok
    ELSE 0

(* C10: the encodings are tried in the order of SUPPORTED_ENCODINGS, the   *)
(* next one only after a decoding failure; the trimmed content of the      *)
(* first encoding that decodes is returned; FileReadError is raised when   *)
(* that content is empty, with no later encoding tried, or when every      *)
(* encoding fails.                                                         *)
C10_OrderedEncodingAttempts ==
    /\ Len(tried) <= 5
    /\ tried = SubSeq(<<"utf-8", "utf-16", "ascii", "iso-8859-1", "cp1252">>,
                      1, Len(tried))
    /\ \A j \in 1..(Len(tried) - 1) : ~file.decoded[j].ok
    /\ read_result.kind = "return" =>
         /\ Len(tried) = FirstDecoding
         /\ read_result.content = strip(file.decoded[FirstDecoding].text)
         /\ read_result.content # <<>>
    /\ (read_result.kind # "running" /\ file.exists) =>
         IF FirstDecoding = 0
         THEN read_result.kind = "FileReadError" /\ Len(tried) = 5
         ELSE IF strip(file.decoded[FirstDecoding].text) = <<>>
         THEN read_result.kind = "FileReadError" /\ Len(tried) = FirstDecoding
         ELSE read_result.kind = "return"

(* the second encoding decodes an empty file while a later one would give *)
(* text: FileReadError after two attempts                                  *)
C10_Witness ==
    /\ read_result.kind = "FileReadError"
    /\ Len(tried) = 2
    /\ \E i \in 3..5 : file.decoded[i].ok /\ strip(file.decoded[i].text) # <<>>

AuthErrors ==
    {"auth_invalid_grant", "auth_other", "call_invalid_grant", "call_other"}

(* C11: the service-initialisation loop makes at most 2 attempts; the      *)
(* second one only after a first that failed with 'invalid_grant', and     *)
(* with token.pickle removed before it; any other error of the first       *)
(* attempt and any error of the second end main with 1 and no document     *)
(* read; the document is read only after an attempt that succeeded.        *)
C11_AtMostTwoAuthAttempts ==
    /\ Len(auth_log) <= 2
    /\ Len(auth_log) = 2 =>
         auth_log[1] \in {"auth_invalid_grant", "call_invalid_grant"}
    /\ (pc = "init_service" /\ Len(auth_log) = 1) => ~token_exists
    /\ (Len(auth_log) >= 1 /\ auth_log[1] \in {"auth_other", "call_other"}) =>
         (Len(auth_log) = 1 /\ pc = "done" /\ result = "1" /\ calls = <<>>)
    /\ (Len(auth_log) = 2 /\ auth_log[2] \in AuthErrors) =>
         (pc = "done" /\ result = "1" /\ calls = <<>>)
    /\ (pc = "read_doc" \/ calls # <<>>) =>
         (auth_log # <<>> /\ auth_log[Len(auth_log)] = "ok")

(* the test call of the first attempt failed with invalid_grant, the       *)
(* second attempt succeeded and the document was read                      *)
C11_Witness ==
    /\ auth_log = <<"call_invalid_grant", "ok">>
    /\ calls # <<>>
    /\ calls[1].step = "read_doc"
    /\ calls[1].ok

=============================================================================
